---- MODULE Spec2Model ----
(***************************************************************************)
(* Model of the server actions of alx-polly (app/lib/actions/              *)
(* poll-actions.ts) running against the Supabase store whose schema and    *)
(* row-level-security policies the repository documents.                   *)
(*                                                                         *)
(* Text is a sequence of one-character strings, so that trimming,          *)
(* stripping and length checks are computed character by character.        *)
(* createPoll, updatePoll, deletePoll, getPollById and getUserPolls make   *)
(* one store round trip each and are one action each.  submitVote makes    *)
(* three round trips (poll read, duplicate-check read, insert); it is      *)
(* three actions, and other calls may run between them.  EditPollPage, the  *)
(* page that opens the edit form, is one action.                           *)
(*                                                                         *)
(* Spec lets any caller start any call at any time.  SpecEndToEnd runs one *)
(* creator's calls in sequence.  SpecVotes runs submitVote calls, with any *)
(* number as the index, on one poll.  SpecSanitize applies sanitizeInput   *)
(* to every text of a bounded set and SpecValidate validatePollInput to    *)
(* every form of a bounded set.  SpecForm runs the events of the option    *)
(* list of the create form and of the edit form.                           *)
(***************************************************************************)
EXTENDS Bags, FiniteSets, Integers, Sequences, TLC

VARIABLES polls, votes, nextPoll, calls, ncalls, ret, storeLog

vars == <<polls, votes, nextPoll, calls, ncalls, ret, storeLog>>

(***************************************************************************)
(* Bounds of the model.                                                    *)
(***************************************************************************)
\* polls ever created (each gets a fresh identifier)
MaxPolls == 2
\* vote rows held by the store
MaxVotes == 3
\* submitVote calls in flight at the same time
MaxInFlight == 2
\* calls started in one behaviour
MaxCalls == 3

(***************************************************************************)
(* Limits written in the code.                                             *)
(***************************************************************************)
MinQuestionLen == 3
MaxQuestionLen == 500
MinOptions == 2
MaxOptions == 10
MinOptionLen == 1
MaxOptionLen == 200
MaxOptionIndex == 9
UuidLen == 36

(***************************************************************************)
(* Values.                                                                 *)
(***************************************************************************)
\* JavaScript null / undefined in a field that otherwise holds a string
Null == "null"
\* formData.get() of a field the form does not carry
Absent == <<"null">>
Users == {"u1", "u2"}
\* a caller without a session
Anon == "anon"
Callers == Users \cup {Anon}

Rep(c, n) == [i \in 1..n |-> c]

Min(S) == CHOOSE x \in S : \A y \in S : x <= y

(***************************************************************************)
(* sanitizeInput: input.trim().replace(/[<>]/g, '')                        *)
(***************************************************************************)
WhiteSpace == {" ", "\t", "\n"}

trim(s) ==
  IF \A i \in 1..Len(s) : s[i] \in WhiteSpace THEN << >>
  ELSE LET first == CHOOSE i \in 1..Len(s) :
                      s[i] \notin WhiteSpace /\ \A j \in 1..(i - 1) : s[j] \in WhiteSpace
           last == CHOOSE i \in 1..Len(s) :
                     s[i] \notin WhiteSpace /\ \A j \in (i + 1)..Len(s) : s[j] \in WhiteSpace
       IN  SubSeq(s, first, last)

IsAngle(c) == c \in {"<", ">"}

NotAngle(c) == ~IsAngle(c)

NotOpenAngle(c) == c # "<"

\* a replace that takes out "<" alone
sanitizeInputOpenOnly(input) == SelectSeq(trim(input), NotOpenAngle)

sanitizeInput(input) == SelectSeq(trim(input), NotAngle)

(***************************************************************************)
(* validatePollInput: the first violated rule gives the error.             *)
(***************************************************************************)
ErrQuestionShort == "Question must be at least 3 characters long."
ErrQuestionLong == "Question must be less than 500 characters."
ErrFewOptions == "At least 2 options are required."
ErrManyOptions == "Maximum 10 options allowed."
ErrOptionEmpty == "All options must have content."
ErrOptionLong == "Each option must be less than 200 characters."
ValidationErrors ==
  {ErrQuestionShort, ErrQuestionLong, ErrFewOptions, ErrManyOptions,
   ErrOptionEmpty, ErrOptionLong}

Invalid(msg) == [isValid |-> FALSE, error |-> msg]

optionBad(option) == Len(option) < MinOptionLen \/ Len(option) > MaxOptionLen

\* the loop over the options without its test for an empty option
validateOptionsNoEmptyTest(options) ==
  IF \E i \in 1..Len(options) : Len(options[i]) > MaxOptionLen
  THEN Invalid(ErrOptionLong)
  ELSE [isValid |-> TRUE, error |-> Null]

\* the options tested rule by rule: any empty option before any long one
validateOptionsRuleByRule(options) ==
  IF \E i \in 1..Len(options) : Len(options[i]) < MinOptionLen
  THEN Invalid(ErrOptionEmpty)
  ELSE IF \E i \in 1..Len(options) : Len(options[i]) > MaxOptionLen
  THEN Invalid(ErrOptionLong)
  ELSE [isValid |-> TRUE, error |-> Null]

validateOptions(options) ==
  LET bad == {i \in 1..Len(options) : optionBad(options[i])}
  IN  IF bad = {} THEN [isValid |-> TRUE, error |-> Null]
      ELSE IF Len(options[Min(bad)]) < MinOptionLen THEN Invalid(ErrOptionEmpty)
      ELSE Invalid(ErrOptionLong)

\* validatePollInput without the upper limit on the question's length
validatePollInputNoQuestionMax(question, options) ==
  IF Len(question) < MinQuestionLen THEN Invalid(ErrQuestionShort)
  ELSE IF Len(options) < MinOptions THEN Invalid(ErrFewOptions)
  ELSE IF Len(options) > MaxOptions THEN Invalid(ErrManyOptions)
  ELSE validateOptions(options)

\* validatePollInput without the upper limit on the number of options
validatePollInputNoMaxOptions(question, options) ==
  IF Len(question) < MinQuestionLen THEN Invalid(ErrQuestionShort)
  ELSE IF Len(question) > MaxQuestionLen THEN Invalid(ErrQuestionLong)
  ELSE IF Len(options) < MinOptions THEN Invalid(ErrFewOptions)
  ELSE validateOptions(options)

validatePollInput(question, options) ==
  IF Len(question) < MinQuestionLen THEN Invalid(ErrQuestionShort)
  ELSE IF Len(question) > MaxQuestionLen THEN Invalid(ErrQuestionLong)
  ELSE IF Len(options) < MinOptions THEN Invalid(ErrFewOptions)
  ELSE IF Len(options) > MaxOptions THEN Invalid(ErrManyOptions)
  ELSE validateOptions(options)

(***************************************************************************)
(* Identifiers.  uuidRegex is                                              *)
(* /^[0-9a-f]{8}-[0-9a-f]{4}-[1-5][0-9a-f]{3}-[89ab][0-9a-f]{3}-           *)
(*   [0-9a-f]{12}$/i ; the store's uuid column accepts any 8-4-4-4-12      *)
(* hexadecimal text.                                                       *)
(***************************************************************************)
HexDigits ==
  {"0", "1", "2", "3", "4", "5", "6", "7", "8", "9",
   "a", "b", "c", "d", "e", "f", "A", "B", "C", "D", "E", "F"}

HyphenAt == {9, 14, 19, 24}

uuidText(id) ==
  /\ Len(id) = UuidLen
  /\ \A i \in 1..UuidLen :
       IF i \in HyphenAt THEN id[i] = "-" ELSE id[i] \in HexDigits

\* a test of the length alone
uuidRegexTestLengthOnly(id) == Len(id) = UuidLen

uuidRegexTest(id) ==
  /\ uuidText(id)
  /\ id[15] \in {"1", "2", "3", "4", "5"}
  /\ id[20] \in {"8", "9", "a", "b", "A", "B"}

\* the identifier gen_random_uuid() gives the k-th poll (version 4, variant 8)
Digit(k) == <<"1", "2", "3", "4", "5", "6", "7", "8", "9">>[k]

PollUuid(k) ==
  Rep(Digit(k), 8) \o <<"-">> \o Rep(Digit(k), 4) \o <<"-", "4">>
    \o Rep(Digit(k), 3) \o <<"-", "8">> \o Rep(Digit(k), 3) \o <<"-">>
    \o Rep(Digit(k), 12)

PollIds == {PollUuid(k) : k \in 1..MaxPolls}

\* identifiers a caller may send: those of polls, and malformed ones
idAbc == <<"a", "b", "c">>
\* the nil UUID: uuid text, but neither version 1-5 nor variant 8-b
idNil == Rep("0", 8) \o <<"-">> \o Rep("0", 4) \o <<"-">> \o Rep("0", 4)
           \o <<"-">> \o Rep("0", 4) \o <<"-">> \o Rep("0", 12)
\* 36 characters, hyphens in place, but "g" is no hexadecimal digit
idBadHex == <<"g">> \o SubSeq(PollUuid(1), 2, UuidLen)
IdInputs == PollIds \cup {idAbc}
\* identifiers sent to the calls that test the format themselves
IdFormatInputs == IdInputs \cup {idNil, idBadHex}

(***************************************************************************)
(* Text a caller may submit.                                               *)
(***************************************************************************)
tA == <<"a">>
tB == <<"b">>
tC == <<"c">>
tEmpty == << >>
tBlank == <<" ">>
qAbc == <<"a", "b", "c">>
qAb == <<"a", "b">>
\* 5 characters, 3 after stripping
qTagAbc == <<"<", "a", "b", "c", ">">>
qMax == Rep("a", MaxQuestionLen)
qOver == Rep("a", MaxQuestionLen + 1)
\* 501 characters, 500 after trimming
qPadOver == Rep("a", MaxQuestionLen) \o <<" ">>
oMax == Rep("a", MaxOptionLen)
oOver == Rep("a", MaxOptionLen + 1)
\* 201 characters, 200 after stripping
oTagOver == <<"<">> \o Rep("a", MaxOptionLen)
\* white space inside the angle brackets: the trim comes before the stripping
qAngleBlank == <<"<", " ", "a", "b", "c", " ", ">">>
oAngleBlank == <<"<", " ", ">">>

Form(q, os) == [question |-> q, options |-> os]

Forms ==
  { Form(qAbc, <<tA, tB>>),
    Form(qTagAbc, <<tA, tB, tC>>),
    Form(qMax, Rep(tA, MaxOptions - 1) \o <<oMax>>),
    Form(qAb, <<tA, tB>>),
    Form(qOver, <<tA, tB>>),
    Form(qPadOver, Rep(tA, MaxOptions - 1) \o <<oTagOver>>),
    Form(Absent, <<tA, tB>>),
    Form(qAbc, <<tA>>),
    Form(qAbc, Rep(tA, MaxOptions + 1)),
    Form(qMax, Rep(tA, MaxOptions - 1) \o <<oMax, tEmpty>>),
    Form(qAbc, <<tA, tEmpty, tB>>),
    Form(qAbc, <<tA, tBlank>>),
    Form(qAbc, <<tA, oOver>>),
    Form(qAbc, <<oOver, tBlank>>),
    Form(qAngleBlank, <<tA, oAngleBlank>>) }

\* the poll of the walk-through: "Favorite color?" with "Red" and "Blue"
qFavorite ==
  <<"F", "a", "v", "o", "r", "i", "t", "e", " ", "c", "o", "l", "o", "r", "?">>
oRed == <<"R", "e", "d">>
oBlue == <<"B", "l", "u", "e">>
favoriteForm == Form(qFavorite, <<oRed, oBlue>>)

\* option indices a caller may send
IndexInputs == {-1, 0, 2, 9, 10}


(***************************************************************************)
(* FormData access.                                                        *)
(***************************************************************************)
NonEmpty(x) == x # << >>

\* formData.getAll("options").filter(Boolean).map(opt => sanitizeInput(opt))
formOptions(form) ==
  LET kept == SelectSeq(form.options, NonEmpty)
  IN  [i \in 1..Len(kept) |-> sanitizeInput(kept[i])]

\* the first lines of createPoll and updatePoll, which are the same:
\* sanitize the question and the options, then validate them
readForm(form) ==
  LET question == sanitizeInput(form.question)
      options == formOptions(form)
  IN  [question |-> question, options |-> options,
       validation |-> validatePollInput(question, options)]

\* readForm of every form a caller may submit, computed once
formsRead ==
  [form \in {f \in Forms \cup {favoriteForm} : f.question # Absent} |->
     readForm(form)]

(***************************************************************************)
(* The store: tables polls and votes, their constraints and policies.      *)
(***************************************************************************)
ErrStoreDown == "fetch failed"
ErrUuidSyntax == "invalid input syntax for type uuid"
ErrForeignKey == "violates foreign key constraint"
ErrIntegerSyntax == "invalid input syntax for type integer"
ErrAuth == "auth lookup failed"

PollRow(id) ==
  [id |-> id, user_id |-> polls[id].user_id, question |-> polls[id].question,
   options |-> polls[id].options, created_at |-> polls[id].created_at]

VoteRow(pollId, user, optionIndex) ==
  [poll_id |-> pollId, user_id |-> user, option_index |-> optionIndex]

\* a delete that leaves the votes of the poll where they are
votesWithoutPollNoCascade(id) == votes

\* votes of a poll go with the poll: poll_id ... ON DELETE CASCADE
votesWithoutPoll(id) ==
  [r \in {x \in DOMAIN votes : x.poll_id # id} |-> votes[r]]

\* number of vote rows a select ... eq(poll_id) eq(user_id) matches
RECURSIVE sumCounts(_, _)
sumCounts(b, S) ==
  IF S = {} THEN 0
  ELSE LET r == CHOOSE x \in S : TRUE
       IN  b[r] + sumCounts(b, S \ {r})

votesOf(pollId, user) ==
  sumCounts(votes, {r \in DOMAIN votes : r.poll_id = pollId /\ r.user_id = user})

\* "Users can update own polls" / "Users can delete own polls":
\* USING (auth.uid() = user_id)
ownRow(uid, id) == id \in DOMAIN polls /\ polls[id].user_id = uid

\* the rows oldest first
RECURSIVE orderAsc(_)
orderAsc(S) ==
  IF S = {} THEN << >>
  ELSE LET m == CHOOSE r \in S : \A x \in S : r.created_at <= x.created_at
       IN  <<m>> \o orderAsc(S \ {m})

\* select ... order("created_at", { ascending: false })
RECURSIVE orderDesc(_)
orderDesc(S) ==
  IF S = {} THEN << >>
  ELSE LET m == CHOOSE r \in S : \A x \in S : x.created_at <= r.created_at
       IN  <<m>> \o orderDesc(S \ {m})

Query(table, op) == [table |-> table, op |-> op]

(***************************************************************************)
(* supabase.auth.getUser() of a request made by caller c.                  *)
(***************************************************************************)
\* what goes wrong during a call: nothing, the identity lookup, or the store
Envs == {"ok", "authFail", "storeFail"}

\* a lookup that takes the request without a session for a user
getUserAnonIsUser(c, env) ==
  IF env = "authFail" THEN [user |-> Null, error |-> ErrAuth]
  ELSE [user |-> c, error |-> Null]

getUser(c, env) ==
  IF env = "authFail" THEN [user |-> Null, error |-> ErrAuth]
  ELSE IF c = Anon THEN [user |-> Null, error |-> Null]
  ELSE [user |-> c, error |-> Null]

(***************************************************************************)
(* What a call gives back to its caller.                                   *)
(***************************************************************************)
\* a result that has lost its error
ResultErrorDropped(op, c, id, err, data) ==
  [op |-> op, caller |-> c, id |-> id, thrown |-> FALSE, error |-> Null,
   data |-> data]

Result(op, c, id, err, data) ==
  [op |-> op, caller |-> c, id |-> id, thrown |-> FALSE, error |-> err,
   data |-> data]

\* sanitizeInput(null): null has no trim(), the call throws a TypeError
Thrown(op, c, id) ==
  [op |-> op, caller |-> c, id |-> id, thrown |-> TRUE, error |-> "TypeError",
   data |-> << >>]

Init ==
  /\ polls = << >>
  /\ votes = EmptyBag
  /\ nextPoll = 1
  /\ calls = EmptyBag
  /\ ncalls = 0
  /\ ret = Result("none", Null, Absent, Null, << >>)
  /\ storeLog = << >>

(***************************************************************************)
(* createPoll(formData) called by c.                                       *)
(***************************************************************************)
ErrLoginCreate == "You must be logged in to create a poll."

createPoll(c, env, form) ==
  /\ ncalls' = ncalls + 1
  /\ UNCHANGED <<votes, calls>>
  /\ IF form.question = Absent
     THEN /\ ret' = Thrown("createPoll", c, Absent)
          /\ storeLog' = << >>
          /\ UNCHANGED <<polls, nextPoll>>
     ELSE LET question == formsRead[form].question
              options == formsRead[form].options
              validation == formsRead[form].validation
              auth == getUser(c, env)
              early == IF ~validation.isValid THEN validation.error
                       ELSE IF auth.error # Null THEN auth.error
                       ELSE IF auth.user = Null THEN ErrLoginCreate
                       ELSE Null
          IN  IF early # Null
              THEN /\ ret' = Result("createPoll", c, Absent, early, << >>)
                   /\ storeLog' = << >>
                   /\ UNCHANGED <<polls, nextPoll>>
              ELSE /\ storeLog' = <<Query("polls", "insert")>>
                   /\ IF env = "storeFail"
                      THEN /\ ret' = Result("createPoll", c, Absent,
                                            ErrStoreDown, << >>)
                           /\ UNCHANGED <<polls, nextPoll>>
                      ELSE /\ nextPoll <= MaxPolls
                           /\ polls' = [id \in DOMAIN polls \cup {PollUuid(nextPoll)} |->
                                          IF id = PollUuid(nextPoll)
                                          THEN [user_id |-> auth.user,
                                                question |-> question,
                                                options |-> options,
                                                created_at |-> nextPoll]
                                          ELSE polls[id]]
                           /\ nextPoll' = nextPoll + 1
                           /\ ret' = Result("createPoll", c, Absent, Null, << >>)

(***************************************************************************)
(* updatePoll(pollId, formData) called by c.                               *)
(***************************************************************************)
ErrLoginUpdate == "You must be logged in to update a poll."

\* an update filtered by the poll id alone
updateMatchesAnyOwner(uid, pollId, user) == pollId \in DOMAIN polls

\* .update({ question, options }).eq("id", pollId).eq("user_id", user.id)
updateMatches(uid, pollId, user) ==
  pollId \in DOMAIN polls /\ polls[pollId].user_id = user /\ ownRow(uid, pollId)

\* an update that writes the row anew, with a new creation time
updatedRowRewritten(row, question, options) ==
  [row EXCEPT !.question = question, !.options = options, !.created_at = 0]

\* .update({ question, options }): the two columns named, no other
updatedRow(row, question, options) ==
  [row EXCEPT !.question = question, !.options = options]

updatePoll(c, env, pollId, form) ==
  /\ ncalls' = ncalls + 1
  /\ UNCHANGED <<votes, calls, nextPoll>>
  /\ IF form.question = Absent
     THEN /\ ret' = Thrown("updatePoll", c, pollId)
          /\ storeLog' = << >>
          /\ UNCHANGED polls
     ELSE LET question == formsRead[form].question
              options == formsRead[form].options
              validation == formsRead[form].validation
              auth == getUser(c, env)
              early == IF ~validation.isValid THEN validation.error
                       ELSE IF auth.error # Null THEN auth.error
                       ELSE IF auth.user = Null THEN ErrLoginUpdate
                       ELSE Null
          IN  IF early # Null
              THEN /\ ret' = Result("updatePoll", c, pollId, early, << >>)
                   /\ storeLog' = << >>
                   /\ UNCHANGED polls
              ELSE /\ storeLog' = <<Query("polls", "update")>>
                   /\ IF env = "storeFail" \/ ~uuidText(pollId)
                      THEN /\ ret' = Result("updatePoll", c, pollId,
                                            IF env = "storeFail" THEN ErrStoreDown
                                            ELSE ErrUuidSyntax, << >>)
                           /\ UNCHANGED polls
                      ELSE /\ polls' = [id \in DOMAIN polls |->
                                          IF id = pollId
                                             /\ updateMatches(c, pollId, auth.user)
                                          THEN updatedRow(polls[id], question,
                                                          options)
                                          ELSE polls[id]]
                           /\ ret' = Result("updatePoll", c, pollId, Null, << >>)

(***************************************************************************)
(* deletePoll(id) called by c.                                             *)
(***************************************************************************)
ErrAuthDelete == "Authentication error"
ErrLoginDelete == "You must be logged in to delete a poll."

\* a delete filtered by the poll id alone
deleteMatchesAnyOwner(uid, id, user) == id \in DOMAIN polls

\* .delete().eq("id", id).eq("user_id", user.id)
deleteMatches(uid, id, user) ==
  id \in DOMAIN polls /\ polls[id].user_id = user /\ ownRow(uid, id)

deletePoll(c, env, id) ==
  /\ ncalls' = ncalls + 1
  /\ UNCHANGED <<calls, nextPoll>>
  /\ LET auth == getUser(c, env)
         early == IF auth.error # Null THEN ErrAuthDelete
                  ELSE IF auth.user = Null THEN ErrLoginDelete
                  ELSE Null
     IN  IF early # Null
         THEN /\ ret' = Result("deletePoll", c, id, early, << >>)
              /\ storeLog' = << >>
              /\ UNCHANGED <<polls, votes>>
         ELSE /\ storeLog' = <<Query("polls", "delete")>>
              /\ IF env = "storeFail" \/ ~uuidText(id)
                 THEN /\ ret' = Result("deletePoll", c, id,
                                       IF env = "storeFail" THEN ErrStoreDown
                                       ELSE ErrUuidSyntax, << >>)
                      /\ UNCHANGED <<polls, votes>>
                 ELSE /\ ret' = Result("deletePoll", c, id, Null, << >>)
                      /\ IF deleteMatches(c, id, auth.user)
                         THEN /\ polls' = [p \in DOMAIN polls \ {id} |-> polls[p]]
                              /\ votes' = votesWithoutPoll(id)
                         ELSE UNCHANGED <<polls, votes>>

(***************************************************************************)
(* getPollById(id); the caller's identity is not looked at.                *)
(***************************************************************************)
ErrIdFormat == "Invalid poll ID format"
\* .single() when the select matches no row, or more than one
ErrNoSingleRow == "JSON object requested, multiple (or no) rows returned"

\* the checks and the select of getPollById: what it gives back and the
\* queries it sends
pollById(id, env) ==
  IF ~uuidRegexTest(id)
  THEN [error |-> ErrIdFormat, data |-> << >>, log |-> << >>]
  ELSE IF env = "storeFail"
  THEN [error |-> ErrStoreDown, data |-> << >>,
        log |-> <<Query("polls", "select")>>]
  ELSE IF id \notin DOMAIN polls
  THEN [error |-> ErrNoSingleRow, data |-> << >>,
        log |-> <<Query("polls", "select")>>]
  ELSE [error |-> Null, data |-> <<PollRow(id)>>,
        log |-> <<Query("polls", "select")>>]

getPollById(id, env) ==
  /\ ncalls' = ncalls + 1
  /\ UNCHANGED <<polls, votes, calls, nextPoll>>
  /\ storeLog' = pollById(id, env).log
  /\ ret' = Result("getPollById", Null, id, pollById(id, env).error,
                   pollById(id, env).data)

(***************************************************************************)
(* EditPollPage({ params: { id } }) requested by c: getPollById, then      *)
(* getCurrentUser, then the page or a way out of it.  The poll shown is    *)
(* the row getPollById read.                                               *)
(***************************************************************************)
NotFoundPage == "notFound()"
ToLogin == "redirect('/login')"
ToPolls == "redirect('/polls')"
EditPollForm == "<EditPollForm poll={poll} />"

\* getCurrentUser(): the user of the session, or null
getCurrentUser(c, env) == getUser(c, env).user

\* the page without the comparison of user.id with poll.user_id
editPageOfNoOwnerTest(user, poll) ==
  IF user = Null THEN <<ToLogin>> ELSE <<EditPollForm, poll>>

editPageOf(user, poll) ==
  IF user = Null THEN <<ToLogin>>
  ELSE IF user # poll.user_id THEN <<ToPolls>>
  ELSE <<EditPollForm, poll>>

EditPollPage(c, env, id) ==
  /\ ncalls' = ncalls + 1
  /\ UNCHANGED <<polls, votes, calls, nextPoll>>
  /\ LET read == pollById(id, env)
     IN  /\ storeLog' = read.log
         /\ ret' = Result("EditPollPage", c, id, Null,
                          IF read.error # Null \/ read.data = << >>
                          THEN <<NotFoundPage>>
                          ELSE editPageOf(getCurrentUser(c, env), read.data[1]))

(***************************************************************************)
(* getUserPolls() called by c.                                             *)
(***************************************************************************)
ErrNotAuthenticated == "Not authenticated"

getUserPolls(c, env) ==
  /\ ncalls' = ncalls + 1
  /\ UNCHANGED <<polls, votes, calls, nextPoll>>
  /\ LET auth == getUser(c, env)
     IN  IF auth.user = Null
         THEN /\ ret' = Result("getUserPolls", c, Absent, ErrNotAuthenticated, << >>)
              /\ storeLog' = << >>
         ELSE /\ storeLog' = <<Query("polls", "select")>>
              /\ ret' = IF env = "storeFail"
                        THEN Result("getUserPolls", c, Absent, ErrStoreDown, << >>)
                        ELSE Result("getUserPolls", c, Absent, Null,
                               orderDesc({PollRow(id) : id \in
                                 {p \in DOMAIN polls : polls[p].user_id = auth.user}}))

(***************************************************************************)
(* submitVote(pollId, optionIndex) called by c: the checks up to and with  *)
(* the read of the poll, then (for a known user) the duplicate-check read, *)
(* then the insert.  A call between two round trips is a record in calls.  *)
(***************************************************************************)
ErrIndex == "Invalid option index"
ErrPollNotFound == "Poll not found"
ErrIndexForPoll == "Invalid option index for this poll"
ErrAlreadyVoted == "You have already voted on this poll"

\* the bounds check that refuses the last option
indexInRangeLastExcluded(optionIndex, options) == optionIndex < Len(options) - 1

\* the bounds check off by one: optionIndex > poll.options.length rejected
indexInRangeOffByOne(optionIndex, options) == optionIndex <= Len(options)

\* the negation of: optionIndex >= poll.options.length
indexInRange(optionIndex, options) == optionIndex < Len(options)

\* optionIndex is the whole part of the number sent as the index; half says
\* that the number is that plus one half, no integer
Call(c, user, pollId, optionIndex, pc) ==
  [caller |-> c, user |-> user, pollId |-> pollId,
   optionIndex |-> optionIndex, half |-> FALSE, pc |-> pc]

InFlight == BagToSet(calls)

\* submitVote(pollId, x) for the number x = optionIndex when half is FALSE,
\* x = optionIndex + 0.5 when half is TRUE.  typeof x is 'number' in both
\* cases; x < 0 when optionIndex < 0; x > 9 when optionIndex > 9, or
\* optionIndex = 9 and half; x >= length when optionIndex >= length.
submitVoteNumber(c, env, pollId, optionIndex, half) ==
  /\ ncalls' = ncalls + 1
  /\ UNCHANGED <<polls, votes, nextPoll>>
  /\ IF ~uuidRegexTest(pollId)
     THEN /\ ret' = Result("submitVote", c, pollId, ErrIdFormat, << >>)
          /\ storeLog' = << >>
          /\ UNCHANGED calls
     ELSE IF \/ optionIndex < 0
             \/ optionIndex > MaxOptionIndex
             \/ (half /\ optionIndex = MaxOptionIndex)
     THEN /\ ret' = Result("submitVote", c, pollId, ErrIndex, << >>)
          /\ storeLog' = << >>
          /\ UNCHANGED calls
     ELSE LET auth == getUser(c, env)
          IN  /\ storeLog' = <<Query("polls", "select")>>
              /\ IF env = "storeFail" \/ pollId \notin DOMAIN polls
                 THEN /\ ret' = Result("submitVote", c, pollId,
                                       ErrPollNotFound, << >>)
                      /\ UNCHANGED calls
                 ELSE IF ~indexInRange(optionIndex, polls[pollId].options)
                 THEN /\ ret' = Result("submitVote", c, pollId,
                                       ErrIndexForPoll, << >>)
                      /\ UNCHANGED calls
                 ELSE /\ BagCardinality(calls) < MaxInFlight
                      /\ calls' = calls (+) SetToBag({[Call(c, auth.user, pollId,
                                     optionIndex,
                                     IF auth.user # Null THEN "check"
                                     ELSE "insert") EXCEPT !.half = half]})
                      /\ UNCHANGED ret

\* submitVote(pollId, optionIndex) with an integer as the index
submitVote(c, env, pollId, optionIndex) ==
  submitVoteNumber(c, env, pollId, optionIndex, FALSE)

\* the duplicate-check read: .single() gives a row only when exactly one
\* row matches; its error is not looked at
submitVoteCheck(r, fail) ==
  /\ r \in InFlight
  /\ r.pc = "check"
  /\ UNCHANGED <<polls, votes, nextPoll, ncalls>>
  /\ storeLog' = <<Query("votes", "select")>>
  /\ LET existingVote == ~fail /\ votesOf(r.pollId, r.user) = 1
     IN  IF existingVote
         THEN /\ ret' = Result("submitVote", r.caller, r.pollId,
                               ErrAlreadyVoted, << >>)
              /\ calls' = calls (-) SetToBag({r})
         ELSE /\ calls' = (calls (-) SetToBag({r}))
                            (+) SetToBag({[r EXCEPT !.pc = "insert"]})
              /\ UNCHANGED ret

\* the insert: option_index must be an integer (option_index INTEGER) and
\* poll_id must reference a poll (REFERENCES polls(id))
submitVoteInsert(r, fail) ==
  /\ r \in InFlight
  /\ r.pc = "insert"
  /\ UNCHANGED <<polls, nextPoll, ncalls>>
  /\ storeLog' = <<Query("votes", "insert")>>
  /\ calls' = calls (-) SetToBag({r})
  /\ IF fail \/ r.half \/ r.pollId \notin DOMAIN polls
     THEN /\ ret' = Result("submitVote", r.caller, r.pollId,
                           IF fail THEN ErrStoreDown
                           ELSE IF r.half THEN ErrIntegerSyntax
                           ELSE ErrForeignKey, << >>)
          /\ UNCHANGED votes
     ELSE /\ BagCardinality(votes) < MaxVotes
          /\ votes' = votes (+) SetToBag({VoteRow(r.pollId, r.user, r.optionIndex)})
          /\ ret' = Result("submitVote", r.caller, r.pollId, Null, << >>)

(***************************************************************************)
(* The system: any caller may start any call with any input at any time.   *)
(***************************************************************************)
\* a behaviour starts at most MaxCalls calls
CanStart == ncalls < MaxCalls

CreatePollStep ==
  /\ CanStart
  /\ \E c \in Callers, env \in Envs, form \in Forms :
       createPoll(c, env, form)

UpdatePollStep ==
  /\ CanStart
  /\ \E c \in Callers, env \in Envs, id \in IdInputs, form \in Forms :
       updatePoll(c, env, id, form)

DeletePollStep ==
  /\ CanStart
  /\ \E c \in Callers, env \in Envs, id \in IdInputs :
       deletePoll(c, env, id)

GetPollByIdStep ==
  /\ CanStart
  /\ \E id \in IdFormatInputs, env \in {"ok", "storeFail"} :
       getPollById(id, env)

EditPollPageStep ==
  /\ CanStart
  /\ \E c \in Callers, env \in Envs, id \in IdInputs :
       EditPollPage(c, env, id)

GetUserPollsStep ==
  /\ CanStart
  /\ \E c \in Callers, env \in Envs :
       getUserPolls(c, env)

SubmitVoteStep ==
  /\ CanStart
  /\ \E c \in Callers, env \in Envs, id \in IdFormatInputs,
          optionIndex \in IndexInputs :
       submitVote(c, env, id, optionIndex)

SubmitVoteCheckStep ==
  \E r \in InFlight, fail \in BOOLEAN : submitVoteCheck(r, fail)

SubmitVoteInsertStep ==
  \E r \in InFlight, fail \in BOOLEAN : submitVoteInsert(r, fail)

Next ==
  \/ CreatePollStep
  \/ UpdatePollStep
  \/ DeletePollStep
  \/ GetPollByIdStep
  \/ EditPollPageStep
  \/ GetUserPollsStep
  \/ SubmitVoteStep
  \/ SubmitVoteCheckStep
  \/ SubmitVoteInsertStep

Spec == Init /\ [][Next]_vars

(***************************************************************************)
(* The walk-through: one creator's calls one after the other, each started *)
(* when the one before has returned: createPoll, getPollById, submitVote   *)
(* of index 1, getUserPolls, deletePoll, then getPollById again.  ncalls   *)
(* is the place in the sequence.  Any call may meet a failing identity     *)
(* lookup or store.                                                        *)
(***************************************************************************)
\* reads of the poll after its deletion
MaxLaterReads == 2

\* the identifier of the first poll created
firstId == PollUuid(1)

Returned == calls = EmptyBag

EndToEndCreate ==
  /\ ncalls = 0
  /\ \E c \in Users, env \in Envs : createPoll(c, env, favoriteForm)

EndToEndRead ==
  /\ ncalls = 1
  /\ \E env \in {"ok", "storeFail"} : getPollById(firstId, env)

EndToEndVote ==
  /\ ncalls = 2
  /\ \E c \in Callers, env \in Envs : submitVote(c, env, firstId, 1)

EndToEndList ==
  /\ ncalls = 3
  /\ Returned
  /\ \E c \in Users, env \in Envs : getUserPolls(c, env)

EndToEndDelete ==
  /\ ncalls = 4
  /\ \E c \in Users, env \in Envs : deletePoll(c, env, firstId)

EndToEndReadAgain ==
  /\ ncalls >= 5
  /\ ncalls < 5 + MaxLaterReads
  /\ \E env \in {"ok", "storeFail"} : getPollById(firstId, env)

NextEndToEnd ==
  \/ EndToEndCreate
  \/ EndToEndRead
  \/ EndToEndVote
  \/ SubmitVoteCheckStep
  \/ SubmitVoteInsertStep
  \/ EndToEndList
  \/ EndToEndDelete
  \/ EndToEndReadAgain

SpecEndToEnd == Init /\ [][NextEndToEnd]_vars

(***************************************************************************)
(* Votes on one poll: a user creates the poll of two options, then callers *)
(* vote on it, with any number as the index.  No identity lookup and no    *)
(* store call fails.                                                       *)
(***************************************************************************)
\* submitVote calls on the poll
MaxVoteCalls == 3

\* whole parts of the numbers sent as the index
WholeParts == {-1, 0, 1, 9, 10}

VotesCreate ==
  /\ ncalls = 0
  /\ \E c \in Users : createPoll(c, "ok", favoriteForm)

VotesSubmit ==
  /\ ncalls >= 1
  /\ ncalls < 1 + MaxVoteCalls
  /\ \E c \in Callers, optionIndex \in WholeParts, half \in BOOLEAN :
       submitVoteNumber(c, "ok", firstId, optionIndex, half)

VotesCheck == \E r \in InFlight : submitVoteCheck(r, FALSE)

VotesInsert == \E r \in InFlight : submitVoteInsert(r, FALSE)

NextVotes ==
  \/ VotesCreate
  \/ VotesSubmit
  \/ VotesCheck
  \/ VotesInsert

SpecVotes == Init /\ [][NextVotes]_vars

(***************************************************************************)
(* validatePollInput on its own: a question and a list of options are      *)
(* drawn, then validated.  They are in ret.id, the validator's answer in   *)
(* ret.error and ret.data.                                                 *)
(***************************************************************************)
\* longest list of options built from every text
MaxListLen == 3

ValidateQuestions == {tEmpty, qAb, qAbc, qMax, qOver}

OptionTexts == {tEmpty, tA, oMax, oOver}

ValidateOptionLists ==
  UNION {[1..n -> OptionTexts] : n \in 0..MaxListLen}
    \cup {Rep(tA, MaxOptions), Rep(tA, MaxOptions + 1),
          Rep(tA, MaxOptions - 1) \o <<oOver>>,
          Rep(tEmpty, MaxOptions + 1), Rep(oOver, MaxOptions + 1)}

ValidateInit ==
  /\ polls = << >>
  /\ votes = EmptyBag
  /\ nextPoll = 1
  /\ calls = EmptyBag
  /\ ncalls = 0
  /\ \E q \in ValidateQuestions, os \in ValidateOptionLists :
       ret = Result("none", Null, Form(q, os), Null, << >>)
  /\ storeLog = << >>

ValidateStep ==
  /\ ret.op = "none"
  /\ LET validation == validatePollInput(ret.id.question, ret.id.options)
     IN  ret' = Result("validatePollInput", Null, ret.id, validation.error,
                       <<validation.isValid>>)
  /\ UNCHANGED <<polls, votes, nextPoll, calls, ncalls, storeLog>>

SpecValidate == ValidateInit /\ [][ValidateStep]_vars

(***************************************************************************)
(* sanitizeInput on its own: a text is drawn, then sanitized.  The text is *)
(* in ret.id and what sanitizeInput returns is in ret.data.                *)
(***************************************************************************)
\* longest text drawn
MaxTextLen == 3

TextAlphabet == {"<", ">", " ", "a", "/"}

scriptTag ==
  <<"<", "s", "c", "r", "i", "p", "t", ">", "h", "i",
    "<", "/", "s", "c", "r", "i", "p", "t", ">">>

TextInputs ==
  UNION {[1..n -> TextAlphabet] : n \in 0..MaxTextLen} \cup {scriptTag}

SanitizeInit ==
  /\ polls = << >>
  /\ votes = EmptyBag
  /\ nextPoll = 1
  /\ calls = EmptyBag
  /\ ncalls = 0
  /\ \E input \in TextInputs : ret = Result("none", Null, input, Null, << >>)
  /\ storeLog = << >>

SanitizeStep ==
  /\ ret.op = "none"
  /\ ret' = Result("sanitizeInput", Null, ret.id, Null, sanitizeInput(ret.id))
  /\ UNCHANGED <<polls, votes, nextPoll, calls, ncalls, storeLog>>

SpecSanitize == SanitizeInit /\ [][SanitizeStep]_vars

(***************************************************************************)
(* SpecForm: the option list of PollCreateForm and of EditPollForm.  The   *)
(* create form opens with two empty entries; the edit form is opened by    *)
(* EditPollPage on a poll its owner has stored.  React renders the form    *)
(* again after each click or keystroke, so the options a handler sees are  *)
(* the options of the state.  ret.data is the option list of the open      *)
(* form, ret.id the last event it has handled.                             *)
(***************************************************************************)
\* the last call or form event of a behaviour of SpecForm
MaxFormCalls == 5

\* if (options.length > 2), and the Remove button shown on the same test
FormMinOptions == 2

\* texts typed into an option field
FormTexts == {tEmpty, tA, tB}

PollCreateForm == "<PollCreateForm />"

FormState(form, event, options) == Result(form, Null, event, Null, options)

formOpen == ret.op \in {PollCreateForm, EditPollForm}

\* 0-based indices of the entries the form shows
formIndices == 0..(Len(ret.data) - 1)

\* a guard that lets a 2-entry list lose an entry
canRemoveAtMin(options) == Len(options) >= FormMinOptions

canRemove(options) == Len(options) > FormMinOptions

\* opts.map((opt, i) => (i === idx ? value : opt))
optionsChanged(opts, idx, value) ==
  [i \in 1..Len(opts) |-> IF i - 1 = idx THEN value ELSE opts[i]]

\* opts.filter((_, i) => i !== idx)
optionsFiltered(opts, idx) ==
  SubSeq(opts, 1, idx) \o SubSeq(opts, idx + 2, Len(opts))

\* useState(["", ""])
openCreateForm ==
  /\ ret' = FormState(PollCreateForm, <<"open">>, <<tEmpty, tEmpty>>)
  /\ ncalls' = ncalls + 1
  /\ UNCHANGED <<polls, votes, nextPoll, calls, storeLog>>

\* useState(poll.options || []) in the form EditPollPage has returned
openEditForm ==
  /\ ret.op = "EditPollPage"
  /\ ret.data[1] = EditPollForm
  /\ ret' = FormState(EditPollForm, <<"open">>, ret.data[2].options)
  /\ ncalls' = ncalls + 1
  /\ UNCHANGED <<polls, votes, nextPoll, calls, storeLog>>

handleOptionChange(idx, value) ==
  /\ formOpen
  /\ ret' = FormState(ret.op, <<"handleOptionChange", idx, value>>,
                      optionsChanged(ret.data, idx, value))
  /\ ncalls' = ncalls + 1
  /\ UNCHANGED <<polls, votes, nextPoll, calls, storeLog>>

addOption ==
  /\ formOpen
  /\ ret' = FormState(ret.op, <<"addOption">>, ret.data \o <<tEmpty>>)
  /\ ncalls' = ncalls + 1
  /\ UNCHANGED <<polls, votes, nextPoll, calls, storeLog>>

removeOption(idx) ==
  /\ formOpen
  /\ ret' = FormState(ret.op, <<"removeOption", idx>>,
                      IF canRemove(ret.data)
                      THEN optionsFiltered(ret.data, idx)
                      ELSE ret.data)
  /\ ncalls' = ncalls + 1
  /\ UNCHANGED <<polls, votes, nextPoll, calls, storeLog>>

FormOpenCreate ==
  /\ ncalls = 0
  /\ openCreateForm

FormCreatePoll ==
  /\ ncalls = 0
  /\ \E c \in Users, form \in Forms : createPoll(c, "ok", form)

FormEditPage ==
  /\ ncalls = 1
  /\ ret.op = "createPoll"
  /\ \E c \in Callers : EditPollPage(c, "ok", firstId)

FormOpenEdit ==
  /\ ncalls = 2
  /\ openEditForm

FormChange ==
  /\ ncalls < MaxFormCalls
  /\ \E idx \in formIndices, value \in FormTexts :
       handleOptionChange(idx, value)

FormAdd ==
  /\ ncalls < MaxFormCalls
  /\ addOption

FormRemove ==
  /\ ncalls < MaxFormCalls
  /\ \E idx \in formIndices : removeOption(idx)

NextForm ==
  \/ FormOpenCreate
  \/ FormCreatePoll
  \/ FormEditPage
  \/ FormOpenEdit
  \/ FormChange
  \/ FormAdd
  \/ FormRemove

SpecForm == Init /\ [][NextForm]_vars

(***************************************************************************)
(* Properties.                                                             *)
(***************************************************************************)
votesOnPoll(id) ==
  sumCounts(votes, {r \in DOMAIN votes : r.poll_id = id})

\* This step ends a call of op by c about id.  Every action that ends a call
\* sets ret so; the properties below put it first among the conditions on a
\* step, which lets the other conditions be looked at on those steps only.
Returns(op, c, id) ==
  ret'.op = op /\ ret'.caller = c /\ ret'.id = id

\* C1: every stored poll has 2 to 10 options, a question of 3 to 500
\* characters and options of 1 to 200 characters each, in every state any
\* interleaving of createPoll, updatePoll, deletePoll and submitVote reaches.
C1_StoredPollsWithinBounds ==
  \A id \in DOMAIN polls :
    /\ Len(polls[id].options) >= MinOptions
    /\ Len(polls[id].options) <= MaxOptions
    /\ Len(polls[id].question) >= MinQuestionLen
    /\ Len(polls[id].question) <= MaxQuestionLen
    /\ \A i \in 1..Len(polls[id].options) :
         /\ Len(polls[id].options[i]) >= MinOptionLen
         /\ Len(polls[id].options[i]) <= MaxOptionLen

\* a poll at the upper limits (500, 10, 200) was written by an updatePoll
\* while a submitVote of another call was between two round trips
C1_Witness ==
  /\ ret.op = "updatePoll"
  /\ ret.error = Null
  /\ ret.id \in DOMAIN polls
  /\ Len(polls[ret.id].question) = MaxQuestionLen
  /\ Len(polls[ret.id].options) = MaxOptions
  /\ \E i \in 1..MaxOptions : Len(polls[ret.id].options[i]) = MaxOptionLen
  /\ calls # EmptyBag

\* C2: a deletePoll(p.id) by an authenticated caller who does not own p
\* leaves p's row as it was and every vote row where it was, whatever the
\* call reports.
C2_NonOwnerDeleteKeepsRow ==
  [][\A c \in Users, id \in IdInputs :
       (/\ Returns("deletePoll", c, id)
        /\ id \in DOMAIN polls
        /\ polls[id].user_id # c)
       => \A env \in Envs :
            deletePoll(c, env, id)
            => (/\ id \in DOMAIN polls'
                /\ polls'[id] = polls[id]
                /\ votes' = votes)]_vars

\* a non-owner's deletePoll has reported success, and the poll it named is
\* still there with a vote on it
C2_Witness ==
  /\ ret.op = "deletePoll"
  /\ ret.error = Null
  /\ ret.caller \in Users
  /\ ret.id \in DOMAIN polls
  /\ polls[ret.id].user_id # ret.caller
  /\ votesOnPoll(ret.id) >= 1

\* C3: an updatePoll(p.id, valid question, valid options) by an
\* authenticated caller who does not own p changes no poll row, and (the
\* identity lookup and the store round trip having succeeded) is reported
\* to the caller as success, with no error.
C3_NonOwnerUpdateSilentNoop ==
  [][\A c \in Users, id \in IdInputs :
       (/\ Returns("updatePoll", c, id)
        /\ id \in DOMAIN polls
        /\ polls[id].user_id # c)
       => \A env \in Envs, form \in DOMAIN formsRead :
            (formsRead[form].validation.isValid /\ updatePoll(c, env, id, form))
            => (/\ polls' = polls
                /\ votes' = votes
                /\ env = "ok" => ret' = Result("updatePoll", c, id, Null, << >>))]_vars

\* a non-owner's updatePoll has reported success on a poll that exists
C3_Witness ==
  /\ ret.op = "updatePoll"
  /\ ret.error = Null
  /\ ~ret.thrown
  /\ ret.caller \in Users
  /\ ret.id \in DOMAIN polls
  /\ polls[ret.id].user_id # ret.caller

\* C4: the store holds at most one vote row for each pair of a poll and a
\* non-null voter identifier, in every reachable state.
C4_OneVotePerIdentity ==
  \A r \in DOMAIN votes :
    r.user_id # Null => votesOf(r.poll_id, r.user_id) <= 1

\* C5: once an authenticated identity u has a vote row on poll p, a later
\* submitVote by u on p with a valid index ends at its duplicate check: it
\* returns the duplicate-vote error and never gets to the insert.  Every
\* call started after the first one returned reaches its duplicate check
\* with that row in the store.
C5_LaterVoteIsDuplicate ==
  [][\A r \in InFlight :
       (r.pc = "check" /\ votesOf(r.pollId, r.user) >= 1)
       => \A fail \in BOOLEAN :
            submitVoteCheck(r, fail)
            => (/\ ret' = Result("submitVote", r.caller, r.pollId,
                                 ErrAlreadyVoted, << >>)
                /\ calls' = calls (-) SetToBag({r})
                /\ votes' = votes)]_vars

\* C6: every vote row, at the moment it is inserted, has an option index
\* smaller than the number of options its poll has in the store at that
\* moment, also when an updatePoll ran between the bounds check and the
\* insert.
C6_IndexValidAtInsert ==
  [][\A r \in InFlight, fail \in BOOLEAN :
       (submitVoteInsert(r, fail) /\ votes' # votes)
       => r.optionIndex < Len(polls[r.pollId].options)]_vars

(***************************************************************************)
(* What a caller submits, before and after the handler reads it.           *)
(***************************************************************************)
optionsRead == [form \in Forms |-> formOptions(form)]

lengthOutside(text, lo, hi) == Len(text) < lo \/ Len(text) > hi

questionBadAsSubmitted(form) ==
  /\ form.question # Absent
  /\ lengthOutside(form.question, MinQuestionLen, MaxQuestionLen)

questionBadAsRead(form) ==
  /\ form.question # Absent
  /\ lengthOutside(formsRead[form].question, MinQuestionLen, MaxQuestionLen)

optionsBad(options) ==
  \/ lengthOutside(options, MinOptions, MaxOptions)
  \/ \E i \in 1..Len(options) :
       lengthOutside(options[i], MinOptionLen, MaxOptionLen)

\* the forms of each kind, computed once
FormsQuestionBadAsSubmitted == {form \in Forms : questionBadAsSubmitted(form)}
FormsQuestionBadAsRead == {form \in Forms : questionBadAsRead(form)}
FormsOptionsBadAsSubmitted == {form \in Forms : optionsBad(form.options)}
FormsOptionsBadAsRead == {form \in Forms : optionsBad(optionsRead[form])}

\* the step is a call that was refused with a validation error before any
\* store round trip
RefusedAsInvalid ==
  /\ ~ret'.thrown
  /\ ret'.error \in ValidationErrors
  /\ storeLog' = << >>
  /\ polls' = polls
  /\ votes' = votes

\* every createPoll and updatePoll step that submits a form of the set F
\* has the outcome Outcome(form)
WritesOf(F, Outcome(_)) ==
  \A c \in Callers, form \in F :
    /\ Returns("createPoll", c, Absent)
       => \A env \in Envs : createPoll(c, env, form) => Outcome(form)
    /\ \A id \in IdInputs :
         Returns("updatePoll", c, id)
         => \A env \in Envs : updatePoll(c, env, id, form) => Outcome(form)

Refused(form) == RefusedAsInvalid

\* C7 as stated: a question whose submitted length is below 3 or above 500
\* makes createPoll and updatePoll return a validation error without a
\* store write.
C7_SubmittedQuestionLength ==
  [][WritesOf(FormsQuestionBadAsSubmitted, Refused)]_vars

\* C7 amended: a question whose length after sanitizing (trimmed, angle
\* brackets removed) is below 3 or above 500 makes createPoll and updatePoll
\* return a validation error without a store write.
C7_SanitizedQuestionLength ==
  [][WritesOf(FormsQuestionBadAsRead, Refused)]_vars

\* the owner's updatePoll of an existing poll was refused for a question of
\* more than 500 characters
C7_Witness ==
  /\ ret.op = "updatePoll"
  /\ ret.error = ErrQuestionLong
  /\ ret.id \in DOMAIN polls
  /\ polls[ret.id].user_id = ret.caller
  /\ storeLog = << >>

\* C8 as stated: an option list submitted with fewer than 2 or more than 10
\* entries, or with an entry that is empty or longer than 200 characters,
\* makes createPoll and updatePoll return a validation error and store
\* nothing.
C8_SubmittedOptions ==
  [][WritesOf(FormsOptionsBadAsSubmitted, Refused)]_vars

\* the outcome the amended C8 gives a call: nothing stored; a validation
\* error when the form carries a question, a TypeError thrown when not
RefusedOrThrown(form) ==
  /\ storeLog' = << >>
  /\ polls' = polls
  /\ votes' = votes
  /\ IF form.question = Absent THEN ret'.thrown
     ELSE ~ret'.thrown /\ ret'.error \in ValidationErrors

\* C8 amended: an option list that, once its empty entries are dropped and
\* the others sanitized, has fewer than 2 or more than 10 entries, or an
\* entry that is empty or longer than 200 characters, makes createPoll and
\* updatePoll store nothing and end in a validation error (in a thrown
\* TypeError when the form has no question field).
C8_ReadOptions ==
  [][WritesOf(FormsOptionsBadAsRead, RefusedOrThrown)]_vars

\* a createPoll was refused for an option that is empty once sanitized,
\* while a poll is in the store
C8_Witness ==
  /\ ret.op = "createPoll"
  /\ ret.error = ErrOptionEmpty
  /\ storeLog = << >>
  /\ polls # << >>

\* C9: on an existing poll with n options, submitVote with an index i in
\* 0..9 returns the out-of-range error and inserts nothing when i >= n;
\* when i < n the call goes on, passes the duplicate check if its identity
\* has no vote on the poll, and its insert adds exactly one vote row
\* carrying i and reports success (the store round trips succeeding and the
\* poll still being there).
C9_VoteIndexAgainstPoll ==
  [][/\ \A c \in Callers, id \in PollIds :
          (/\ ncalls' = ncalls + 1
           /\ id \in DOMAIN polls
           /\ calls' # calls \/ Returns("submitVote", c, id))
          => \A i \in IndexInputs \cap 0..MaxOptionIndex,
                env \in {"ok", "authFail"} :
               submitVote(c, env, id, i)
               => IF i >= Len(polls[id].options)
                  THEN /\ ret' = Result("submitVote", c, id,
                                        ErrIndexForPoll, << >>)
                       /\ calls' = calls
                       /\ votes' = votes
                  ELSE /\ \E pc \in {"check", "insert"} :
                            calls' = calls (+) SetToBag({Call(c,
                                       getUser(c, env).user, id, i, pc)})
                       /\ ret' = ret
                       /\ votes' = votes
     /\ \A r \in InFlight :
          /\ (ncalls' = ncalls /\ r.pc = "check"
                /\ votesOf(r.pollId, r.user) = 0)
             => \A fail \in BOOLEAN :
                  submitVoteCheck(r, fail)
                  => /\ calls' = (calls (-) SetToBag({r}))
                                   (+) SetToBag({[r EXCEPT !.pc = "insert"]})
                     /\ ret' = ret
          /\ (ncalls' = ncalls /\ r.pc = "insert" /\ r.pollId \in DOMAIN polls)
             => (submitVoteInsert(r, FALSE)
                 => /\ votes' = votes (+) SetToBag({VoteRow(r.pollId, r.user,
                                                           r.optionIndex)})
                    /\ ret' = Result("submitVote", r.caller, r.pollId,
                                     Null, << >>))]_vars

\* on a poll of 3 options a vote for index 2 is in the store and a vote for
\* index 9 has been refused as out of range
C9_Witness ==
  /\ ret = Result("submitVote", ret.caller, ret.id, ErrIndexForPoll, << >>)
  /\ ret.id \in DOMAIN polls
  /\ Len(polls[ret.id].options) = 3
  /\ \E r \in DOMAIN votes : r.poll_id = ret.id /\ r.option_index = 2

\* C10: getPollById with an identifier that is not UUID-shaped (not 36
\* characters of hexadecimal digits grouped 8-4-4-4-12) returns the format
\* error with no poll and sends no query to the store.
C10_MalformedIdNoQuery ==
  [][\A id \in IdFormatInputs :
       (ret'.id = id /\ ~uuidText(id))
       => \A env \in Envs :
            getPollById(id, env)
            => /\ ret' = Result("getPollById", Null, id, ErrIdFormat, << >>)
               /\ storeLog' = << >>]_vars

\* getPollById("abc") has returned the format error without a query, with
\* a poll in the store
C10_Witness ==
  /\ ret = Result("getPollById", Null, idAbc, ErrIdFormat, << >>)
  /\ storeLog = << >>
  /\ polls # << >>

\* the polls c owns, as the store holds them
ownedBy(c) == {id \in DOMAIN polls : polls[id].user_id = c}

\* C11: getUserPolls by an authenticated caller (its identity lookup and its
\* store round trip succeeding) returns the stored polls of that caller, all
\* of them, each once, and no poll of another owner, the later created
\* first; by a caller without a session it returns an empty list with the
\* error "Not authenticated" and sends no query.
C11_GetUserPollsOwnNewestFirst ==
  [][\A c \in Callers :
       Returns("getUserPolls", c, Absent)
       => /\ (c \in Users /\ getUserPolls(c, "ok"))
             => /\ ret'.error = Null
                /\ Len(ret'.data) = Cardinality(ownedBy(c))
                /\ {ret'.data[i] : i \in 1..Len(ret'.data)}
                     = {PollRow(id) : id \in ownedBy(c)}
                /\ \A i, j \in 1..Len(ret'.data) :
                     i < j => ret'.data[i].created_at >= ret'.data[j].created_at
          /\ c = Anon
             => \A env \in Envs :
                  getUserPolls(c, env)
                  => /\ ret'.data = << >>
                     /\ ret'.error = ErrNotAuthenticated
                     /\ storeLog' = << >>]_vars

\* getUserPolls has returned the two polls of its caller, the second created
\* before the first
C11_Witness ==
  /\ ret.op = "getUserPolls"
  /\ ret.error = Null
  /\ Len(ret.data) = 2
  /\ ret.data[1].user_id = ret.caller
  /\ ret.data[2].user_id = ret.caller
  /\ ret.data[1].created_at > ret.data[2].created_at

scriptStored ==
  <<"s", "c", "r", "i", "p", "t", "h", "i", "/", "s", "c", "r", "i", "p", "t">>

\* the places of a text from its first to its last character that is not
\* white space
insideOf(text) ==
  {i \in 1..Len(text) :
     /\ \E j \in 1..i : text[j] \notin WhiteSpace
     /\ \E k \in i..Len(text) : text[k] \notin WhiteSpace}

\* the characters of text at the places P, in the order of the places
pick(text, P) ==
  [n \in 1..Cardinality(P) |->
     text[CHOOSE i \in P : Cardinality({j \in P : j < i}) = n - 1]]

\* C12 as stated: the sanitizer's output is its input without the angle
\* brackets, every other character kept in its place in the order.
C12_OnlyAnglesStripped ==
  ret.op = "sanitizeInput"
  => /\ \A i \in 1..Len(ret.data) : ~IsAngle(ret.data[i])
     /\ ret.data = pick(ret.id, {i \in 1..Len(ret.id) : ~IsAngle(ret.id[i])})

\* C12 amended: the sanitizer's output holds no "<" and no ">", and is the
\* input without its leading and trailing white space and without the angle
\* brackets that stand between them, the other characters in their order;
\* "<script>hi</script>" gives "scripthi/script".
C12_TrimmedThenAnglesStripped ==
  ret.op = "sanitizeInput"
  => /\ \A i \in 1..Len(ret.data) : ~IsAngle(ret.data[i])
     /\ ret.data = pick(ret.id, {i \in insideOf(ret.id) : ~IsAngle(ret.id[i])})
     /\ ret.id = scriptTag => ret.data = scriptStored

\* "<script>hi</script>" has been sanitized to "scripthi/script"
C12_Witness ==
  /\ ret.op = "sanitizeInput"
  /\ ret.id = scriptTag
  /\ ret.data = scriptStored

beginsOrEndsBlank(text) ==
  text # << >> /\ (text[1] \in WhiteSpace \/ text[Len(text)] \in WhiteSpace)

\* C13: no question and no option that createPoll or updatePoll has stored
\* begins or ends with a white-space character.
C13_StoredTextTrimmed ==
  \A id \in DOMAIN polls :
    /\ ~beginsOrEndsBlank(polls[id].question)
    /\ \A i \in 1..Len(polls[id].options) :
         ~beginsOrEndsBlank(polls[id].options[i])

C15_NothingThrown == ~ret.thrown

(***************************************************************************)
(* The walk-through, call by call.  Each call is looked at when the calls  *)
(* before it have done their work (the poll is stored, or is deleted) and  *)
(* its own identity lookup and store round trips succeed.                  *)
(***************************************************************************)
favoritePoll(c) ==
  [user_id |-> c, question |-> qFavorite, options |-> <<oRed, oBlue>>,
   created_at |-> 1]

\* createPoll stores the poll; Yield(c) is what it gives back
createdWith(Yield(_)) ==
  ncalls = 0
  => \A c \in Users :
       createPoll(c, "ok", favoriteForm)
       => /\ polls' = (firstId :> favoritePoll(c))
          /\ ~ret'.thrown
          /\ ret'.error = Null
          /\ Yield(c)

yieldsId(c) == Len(ret'.data) = 1 /\ ret'.data[1].id = firstId

yieldsNothing(c) == ret' = Result("createPoll", c, Absent, Null, << >>)

\* getPollById returns the poll; a vote for index 1 goes through its
\* duplicate check and its insert and succeeds
readAndVoted ==
  (ncalls \in {1, 2} /\ firstId \in DOMAIN polls)
  => /\ (ncalls = 1 /\ getPollById(firstId, "ok"))
        => ret' = Result("getPollById", Null, firstId, Null, <<PollRow(firstId)>>)
     /\ ncalls = 2
        => \A c \in Callers :
             submitVote(c, "ok", firstId, 1)
             => /\ ret' = ret
                /\ votes' = votes
                /\ calls' = SetToBag({Call(c, IF c = Anon THEN Null ELSE c,
                                           firstId, 1,
                                           IF c = Anon THEN "insert" ELSE "check")})

voteLanded ==
  \A r \in InFlight :
    /\ (r.pc = "check" /\ submitVoteCheck(r, FALSE))
       => /\ calls' = SetToBag({[r EXCEPT !.pc = "insert"]})
          /\ ret' = ret
          /\ votes' = votes
    /\ (r.pc = "insert" /\ firstId \in DOMAIN polls /\ submitVoteInsert(r, FALSE))
       => /\ votes' = SetToBag({VoteRow(firstId, r.user, 1)})
          /\ ret' = Result("submitVote", r.caller, firstId, Null, << >>)

\* the creator's list holds the poll, the creator's deletePoll removes it,
\* and every read after that finds no row
listedDeletedGone ==
  /\ (ncalls \in {3, 4} /\ firstId \in DOMAIN polls)
     => LET c == polls[firstId].user_id
        IN  /\ (ncalls = 3 /\ getUserPolls(c, "ok"))
               => /\ ret'.error = Null
                  /\ \E i \in 1..Len(ret'.data) : ret'.data[i] = PollRow(firstId)
            /\ (ncalls = 4 /\ deletePoll(c, "ok", firstId))
               => /\ ret' = Result("deletePoll", c, firstId, Null, << >>)
                  /\ firstId \notin DOMAIN polls'
                  /\ votes' = EmptyBag
  /\ (ncalls >= 5 /\ firstId \notin DOMAIN polls)
     => /\ firstId \notin DOMAIN polls'
        /\ getPollById(firstId, "ok")
           => ret' = Result("getPollById", Null, firstId, ErrNoSingleRow, << >>)

C17_VotesGoWithPoll ==
  [][/\ \A r \in DOMAIN votes' : r.poll_id \in DOMAIN polls'
     /\ \A c \in Users, id \in PollIds :
          (/\ Returns("deletePoll", c, id)
           /\ id \in DOMAIN polls
           /\ polls[id].user_id = c)
          => (deletePoll(c, "ok", id)
              => /\ ret'.error = Null
                 /\ id \notin DOMAIN polls'
                 /\ \A r \in DOMAIN votes' : r.poll_id # id
                 /\ \A r \in DOMAIN votes :
                      r.poll_id # id => (r \in DOMAIN votes' /\ votes'[r] = votes[r]))]_vars

\* a submitVote whose insert came after the deletePoll of its poll was
\* refused by the store, and the votes table holds no row of that poll
C17_Witness ==
  /\ ret.op = "submitVote"
  /\ ret.error = ErrForeignKey
  /\ ret.id \notin DOMAIN polls
  /\ ret.id \in PollIds
  /\ \A r \in DOMAIN votes : r.poll_id # ret.id
  /\ calls = EmptyBag

\* C18: createPoll stores a poll only for a caller with a session, and the
\* poll's owner is that caller; called without a session, with any form, it
\* returns an error and stores nothing.
C18_CreateOnlyForAuthenticated ==
  [][\A c \in Callers :
       Returns("createPoll", c, Absent)
       => \A env \in Envs, form \in Forms :
            createPoll(c, env, form)
            => /\ polls' # polls
                  => /\ c \in Users
                     /\ DOMAIN polls' = DOMAIN polls \cup {PollUuid(nextPoll)}
                     /\ polls'[PollUuid(nextPoll)].user_id = c
                     /\ \A id \in DOMAIN polls : polls'[id] = polls[id]
               /\ c = Anon
                  => /\ polls' = polls
                     /\ ~ret'.thrown
                     /\ ret'.error # Null]_vars

\* C19: EditPollPage gives the edit form, with the poll, only when the poll
\* is in the store and the caller has a session and is the poll's owner.  An
\* identifier that is malformed or of no stored poll gives not-found.  For a
\* stored poll (the lookups succeeding) a caller without a session is sent
\* to /login, a caller who is not the owner to /polls, and the owner gets
\* the form.
C19_EditFormOnlyForOwner ==
  [][\A c \in Callers, id \in IdInputs :
       Returns("EditPollPage", c, id)
       => \A env \in Envs :
            EditPollPage(c, env, id)
            => /\ ret'.data[1] = EditPollForm
                  => /\ id \in DOMAIN polls
                     /\ c \in Users
                     /\ polls[id].user_id = c
                     /\ ret'.data = <<EditPollForm, PollRow(id)>>
               /\ id \notin DOMAIN polls => ret'.data = <<NotFoundPage>>
               /\ (id \in DOMAIN polls /\ env = "ok")
                  => /\ c = Anon => ret'.data = <<ToLogin>>
                     /\ (c \in Users /\ polls[id].user_id # c)
                        => ret'.data = <<ToPolls>>
                     /\ (c \in Users /\ polls[id].user_id = c)
                        => ret'.data[1] = EditPollForm]_vars

\* a user who does not own a stored poll asked for its edit page and was
\* sent to the poll list
C19_Witness ==
  /\ ret.op = "EditPollPage"
  /\ ret.data = <<ToPolls>>
  /\ ret.caller \in Users
  /\ ret.id \in DOMAIN polls
  /\ polls[ret.id].user_id # ret.caller

\* C20: a submitVote of a caller without a session, on a stored poll with
\* an index the poll has, skips the duplicate check: it goes from the read
\* of the poll to the insert, and the insert (the store taking it, the poll
\* still there) adds one vote row with a null user_id and reports success,
\* whatever votes the poll has; no such call returns the duplicate-vote
\* error.
C20_AnonymousNeverDuplicate ==
  [][/\ \A id \in PollIds :
          (/\ ncalls' = ncalls + 1
           /\ calls' # calls
           /\ id \in DOMAIN polls)
          => \A i \in IndexInputs, env \in {"ok", "authFail"} :
               (/\ i >= 0
                /\ i < Len(polls[id].options)
                /\ submitVote(Anon, env, id, i))
               => /\ calls' = calls (+) SetToBag({Call(Anon, Null, id, i, "insert")})
                  /\ ret' = ret
                  /\ votes' = votes
     /\ \A r \in InFlight :
          r.caller = Anon
          => /\ r.pc = "insert"
             /\ r.user = Null
             /\ (r.pollId \in DOMAIN polls /\ submitVoteInsert(r, FALSE))
                => /\ votes' = votes (+) SetToBag({VoteRow(r.pollId, Null,
                                                          r.optionIndex)})
                   /\ ret' = Result("submitVote", Anon, r.pollId, Null, << >>)
     /\ ~(/\ ret'.op = "submitVote"
          /\ ret'.caller = Anon
          /\ ret'.error = ErrAlreadyVoted)]_vars

\* a second vote without a session has been taken on a poll that had one
C20_Witness ==
  /\ ret.op = "submitVote"
  /\ ret.caller = Anon
  /\ ret.error = Null
  /\ ret.id \in DOMAIN polls
  /\ votesOf(ret.id, Null) >= 2

\* the answer to a question and a list of options when the last two rules
\* are put to the list as Options(options) says
answerWith(question, options, Options(_)) ==
  IF Len(question) < MinQuestionLen THEN ErrQuestionShort
  ELSE IF Len(question) > MaxQuestionLen THEN ErrQuestionLong
  ELSE IF Len(options) < MinOptions THEN ErrFewOptions
  ELSE IF Len(options) > MaxOptions THEN ErrManyOptions
  ELSE Options(options)

\* rule by rule: an empty option anywhere comes before a long one anywhere
someEmptyThenSomeLong(options) ==
  IF \E i \in 1..Len(options) : options[i] = << >> THEN ErrOptionEmpty
  ELSE IF \E i \in 1..Len(options) : Len(options[i]) > MaxOptionLen
  THEN ErrOptionLong
  ELSE Null

\* option by option: the first option that breaks a rule decides
firstBadOption(options) ==
  IF \E i \in 1..Len(options) :
       /\ options[i] = << >>
       /\ \A j \in 1..(i - 1) :
            options[j] # << >> /\ Len(options[j]) <= MaxOptionLen
  THEN ErrOptionEmpty
  ELSE IF \E i \in 1..Len(options) : Len(options[i]) > MaxOptionLen
  THEN ErrOptionLong
  ELSE Null

validated(Options(_)) ==
  ret.op = "validatePollInput"
  => LET answer == answerWith(ret.id.question, ret.id.options, Options)
     IN  /\ ret.error = answer
         /\ ret.data = <<answer = Null>>

\* C21 as stated: the validator gives the reason of the first rule broken,
\* the rules taken in the order: question short, question long, too few
\* options, too many options, some option empty, some option too long; a
\* list with a too long option and an empty one after it is reported for
\* its empty option.
C21_FirstRuleInOrder == validated(someEmptyThenSomeLong)

\* C21 amended: the first four rules in that order; after them the options
\* are taken in the order of the list, each tested for being empty and then
\* for being too long, and the first option that fails decides; a list with
\* a too long option and an empty one after it is reported as too long.
C21_FirstRuleThenFirstOption == validated(firstBadOption)

\* a list with a too long option before an empty one was reported as having
\* a too long option
C21_Witness ==
  /\ ret.op = "validatePollInput"
  /\ ret.id = Form(qAbc, <<oOver, tEmpty>>)
  /\ ret.error = ErrOptionLong

\* C22: a store call that fails ends its call with an error: a submitVote
\* whose duplicate-check read, or whose insert, fails returns an error, is
\* over, and has inserted nothing.
C22_FailedReadEndsVote ==
  [][\A r \in InFlight :
       (submitVoteCheck(r, TRUE) \/ submitVoteInsert(r, TRUE))
       => /\ ret'.op = "submitVote"
          /\ ret'.caller = r.caller
          /\ ret'.error # Null
          /\ calls' = calls (-) SetToBag({r})
          /\ votes' = votes]_vars

\* a non-negative integer of at most 9
indexAsSpecified(optionIndex, half) ==
  ~half /\ optionIndex >= 0 /\ optionIndex <= MaxOptionIndex

\* C23: submitVote with a well-formed poll id and an index that is not a
\* non-negative integer of at most 9 returns the invalid-index error
\* before any store round trip, and no vote is inserted for it.
C23_IndexMustBeInteger ==
  [][/\ \A c \in Callers, optionIndex \in WholeParts, half \in BOOLEAN :
          (/\ ~indexAsSpecified(optionIndex, half)
           /\ submitVoteNumber(c, "ok", firstId, optionIndex, half))
          => /\ ret' = Result("submitVote", c, firstId, ErrIndex, << >>)
             /\ storeLog' = << >>
             /\ calls' = calls
             /\ votes' = votes
     /\ \A r \in InFlight : indexAsSpecified(r.optionIndex, r.half)]_vars

\* C25: when the store holds one or more vote rows of user u on poll p, two
\* or more also, a further submitVote of u on p that reaches its duplicate
\* check (the read succeeding) is refused with the duplicate-vote error, and
\* the number of vote rows of u on p does not grow.
C25_DuplicateWithAnyRowCount ==
  [][\A r \in InFlight :
       /\ (/\ r.pc = "check"
           /\ votesOf(r.pollId, r.user) >= 1
           /\ submitVoteCheck(r, FALSE))
          => /\ ret' = Result("submitVote", r.caller, r.pollId,
                              ErrAlreadyVoted, << >>)
             /\ calls' = calls (-) SetToBag({r})
       /\ (/\ r.user # Null
           /\ votesOf(r.pollId, r.user) >= 2
           /\ submitVoteInsert(r, FALSE))
          => votes' = votes]_vars

\* C26: a vote row inserted by the submitVote of a caller with a session
\* has that caller's identifier as its user_id, and a row with a null
\* user_id is inserted only by the call of a caller without a session, also
\* when the identity lookup of the call has failed.
C26_VoteCarriesCaller ==
  [][\A r \in InFlight, fail \in BOOLEAN :
       (submitVoteInsert(r, fail) /\ votes' # votes)
       => \E row \in DOMAIN votes' :
            /\ votes' = votes (+) SetToBag({row})
            /\ r.caller \in Users => row.user_id = r.caller
            /\ row.user_id = Null => r.caller = Anon]_vars

\* C27: a successful updatePoll by the owner changes only the question and
\* the options of the poll it names: the set of poll identifiers, that
\* poll's owner and creation time, every other poll row and every vote row
\* (the votes on the edited poll too, none removed, none re-indexed) stay as
\* they were; and an updatePoll or a deletePoll with an id that matches no
\* poll leaves the poll rows and the vote rows as they were.
C27_UpdateChangesOnlyQuestionAndOptions ==
  [][\A c \in Callers, id \in IdInputs :
       /\ (/\ Returns("updatePoll", c, id)
           /\ id \in DOMAIN polls
           /\ polls[id].user_id = c
           /\ ret'.error = Null
           /\ ~ret'.thrown)
          => \A form \in Forms :
               (/\ form.question # Absent
                /\ formsRead[form].validation.isValid
                /\ updatePoll(c, "ok", id, form))
               => /\ DOMAIN polls' = DOMAIN polls
                  /\ polls'[id].user_id = polls[id].user_id
                  /\ polls'[id].created_at = polls[id].created_at
                  /\ polls'[id].question = formsRead[form].question
                  /\ polls'[id].options = formsRead[form].options
                  /\ \A p \in DOMAIN polls \ {id} : polls'[p] = polls[p]
                  /\ votes' = votes
       /\ (/\ ncalls' = ncalls + 1
           /\ id \notin DOMAIN polls
           /\ Returns("updatePoll", c, id) \/ Returns("deletePoll", c, id))
          => polls' = polls /\ votes' = votes]_vars

\* the owner's updatePoll has succeeded on a poll that has a vote, and the
\* vote is still there with an index the new option list does not have
C27_Witness ==
  /\ ret = Result("updatePoll", ret.caller, ret.id, Null, << >>)
  /\ ret.id \in DOMAIN polls
  /\ polls[ret.id].user_id = ret.caller
  /\ Len(polls[ret.id].options) = 2
  /\ \E r \in DOMAIN votes : r.poll_id = ret.id /\ r.option_index = 2

\* C24: in PollCreateForm and in EditPollForm (opened on a stored poll),
\* after any sequence of addOption, removeOption and handleOptionChange
\* events the option list has at least 2 entries; a removeOption on a list
\* of 2 entries leaves the list as it was; a handleOptionChange(idx, value)
\* keeps the length, puts value at idx and leaves every other entry as it
\* was.
C24_FormKeepsTwoOptions ==
  [][/\ formOpen' => Len(ret'.data) >= 2
     /\ formOpen
        => \A idx \in formIndices :
             /\ (Len(ret.data) = 2 /\ removeOption(idx))
                => ret'.data = ret.data
             /\ \A value \in FormTexts :
                  handleOptionChange(idx, value)
                  => /\ Len(ret'.data) = Len(ret.data)
                     /\ ret'.data[idx + 1] = value
                     /\ \A i \in formIndices \ {idx} :
                          ret'.data[i + 1] = ret.data[i + 1]]_vars

\* the edit form was opened on a stored poll of 2 options and the one event
\* it has handled since is a removeOption: the list has its 2 entries
C24_Witness ==
  /\ ret.op = EditPollForm
  /\ ncalls = 4
  /\ ret.id = <<"removeOption", 0>>
  /\ Len(polls[firstId].options) = 2
  /\ ret.data = polls[firstId].options
====
